---- MODULE Spec2Model ----
(***************************************************************************)
(* The control core of the capture agent (src/eye/agent.py, class Agent): *)
(* the constructor with server discovery (detect_mediator),               *)
(* start / wait_for_server, the run loop with its stop conditions, the    *)
(* upload protocol with backoff and server-issued configuration patches,  *)
(* and stop() with the signal handler that calls it.                      *)
(*                                                                         *)
(* Time is counted in whole seconds (now).  A blocking call (capture,     *)
(* upload) takes 0..MaxCallTime seconds; sleeps take what the code passes *)
(* to time.sleep.  Signal handlers run on the main thread: while a        *)
(* handler frame is on hstack the interrupted code does not advance.      *)
(* A URL is a sequence of pieces, "/" being a piece of its own, so that   *)
(* rstrip('/') has something to strip.                                    *)
(***************************************************************************)
EXTENDS Integers, Sequences, FiniteSets, TLC

VARIABLES
    args,         \* the arguments Agent(...) was called with
    world,        \* what __init__ finds around it: environment variable, servers, routes
    server_url,   \* self.server_url (None while unset)
    capture_method, \* self.capture_method ("" while unset)
    probes,       \* the candidates detect_mediator has probed, in order
    env_read,     \* whether MEDIATOR_URL has been read
    handlers,     \* whether _signal_handler is installed for SIGINT / SIGTERM
    timeout,      \* wait_for_server's timeout argument (None or <<seconds>>)
    wait_start,   \* wait_for_server's local start_time
    duration,     \* self.duration   (None or <<seconds>>), fixed by __init__
    max_frames,   \* self.max_frames (None or <<count>>),   fixed by __init__
    interval,     \* self.interval
    format,       \* self.format
    quality,      \* self.quality
    frame_id,     \* self.frame_id
    retry_delay,  \* self.retry_delay
    running,      \* self.running
    start_time,   \* self.start_time (None or <<t>>)
    pc,           \* position of the main thread in run()
    attempt,      \* wait_for_server's local attempt counter
    loop_start,   \* run()'s local loop_start
    elapsed,      \* run()'s local elapsed (cost of the iteration)
    sleep_time,   \* run()'s local sleep_time while in time.sleep(sleep_time)
    now,          \* the clock (time.time() / datetime.now()), in seconds
    hstack,       \* frames of _signal_handler on the main thread, innermost last
    enc,          \* what the last _encode_image call used
    shot,         \* the last capture_screen call: backends tried, and its result
    request,      \* the form fields of the last upload request
    last,         \* the last upload_frame call: response received and value returned
    obs,          \* observation counters (what the run printed / did)
    env,          \* what the environment of this run may still do (fixed per run)
    cm,           \* config.py: DEFAULT_CONFIG, the ConfigManager instances, the file
    metrics,      \* a MetricsCollector: self.metrics, and the last call made on it
    sessions,     \* a SessionManager: self.sessions, and the last call made on it
    stream        \* a StreamManager: self.running, the position of stream_frames

vars == <<args, world, server_url, capture_method, probes, env_read, handlers,
          timeout, wait_start, duration, max_frames, interval, format, quality, frame_id, retry_delay,
          running, start_time, pc, attempt, loop_start, elapsed, sleep_time, now,
          hstack, enc, shot, request, last, obs, env, cm, metrics,
          sessions, stream>>

----------------------------------------------------------------------------
(* Bounds of the model *)

\* iterations of the run loop that are explored
MaxIters == 7
\* iterations explored in the runs that receive signals or patches
ShortIters == 3
\* signal-handler invocations that are explored
MaxSignals == 2
\* 200-responses carrying a config object that are explored
MaxPatches == 1
\* longest time a capture or an upload call takes, in seconds
MaxCallTime == 1
\* health probes explored in wait_for_server
MaxAttempts == 2
\* largest max_frames argument explored
MaxFramesArg == 3
\* health probes explored when wait_for_server is called with a timeout
MaxWaitAttempts == 11
\* longest time a health probe of wait_for_server takes, in seconds (at most its
\* request timeout of 2)
MaxProbeTime == 1
\* run() calls explored on one agent
\* calls made on the ConfigManager instances of one process
MaxConfigOps == 3
\* calls made on the MetricsCollector
MaxMetricOps == 4
\* calls made on the SessionManager
MaxSessionOps == 4
\* frames the server sends on the stream, and calls of StreamManager.stop()
MaxStreamFrames == 3
MaxStreamStops == 2
MaxCalls == 2
\* iterations explored in the runs whose captures fall back
CascadeIters == 2

(* Program constants *)
InitialRetryDelay == 1
BackoffCap == 30
CooldownSeconds == 2
WaitSleepSeconds == 2
WarnBelow == 10
HeartbeatEvery == 10
QualityMin == 1
QualityMax == 100
DefaultQuality == 95

----------------------------------------------------------------------------
(* Optional values: None, or a one-element tuple *)

None == <<>>
Some(x) == <<x>>

\* Python truthiness of an Optional[int]: None and 0 are both false
Truthy(opt) == opt # None /\ opt[1] # 0

Min(a, b) == IF a <= b THEN a ELSE b
Max(a, b) == IF a >= b THEN a ELSE b

\* Python truthiness of an Optional[str]: None and "" are both false
StrTruthy(opt) == opt # None /\ opt[1] # <<>>

\* rstrip without effect
RstripKeeps(u) == u

\* str.rstrip('/')
RECURSIVE Rstrip(_)
Rstrip(u) ==
    IF u # <<>> /\ u[Len(u)] = "/" THEN Rstrip(SubSeq(u, 1, Len(u) - 1)) ELSE u

\* str.lower() on the format names that occur
Lower(s) ==
    CASE s = "JPG"  -> "jpg"
      [] s = "JPEG" -> "jpeg"
      [] s = "PNG"  -> "png"
      [] s = "WEBP" -> "webp"
      [] s = "GIF"  -> "gif"
      [] OTHER      -> s

\* the formats __init__ accepts (line 59), and those it can leave in self.format
AcceptedFormats == {"png", "jpeg", "jpg", "webp", "bmp", "tiff"}
StoredFormats == AcceptedFormats \ {"jpg"}

\* __init__: self.format = format.lower(); 'jpg' becomes 'jpeg'
InitFormat(arg) == IF Lower(arg) = "jpg" THEN "jpeg" ELSE Lower(arg)

\* __init__: self.quality = max(1, min(100, quality))
InitQuality(arg) == Max(QualityMin, Min(QualityMax, arg))

----------------------------------------------------------------------------
(* Constructor arguments and server responses that are explored *)

Args(d, m, f) ==
    [server_url |-> None, duration |-> d, max_frames |-> m, interval |-> 1, format |-> f,
     quality |-> DefaultQuality]

\* the candidates of detect_mediator (lines 106-110, 121) and its default (line 134)
LocalhostUrl == <<"http://localhost:8080">>
MediatorUrl == <<"http://mediator:8080">>
DockerHostUrl == <<"http://host.docker.internal:8080">>
GatewayUrl(ip) == <<"http://", ip, ":8080">>
DefaultUrl == <<"http://localhost:8080">>

\* what __init__ finds: MEDIATOR_URL (None when unset), the URLs whose health probe
\* gets an answer (of any status), the platform, /proc/net/route ("unreadable":
\* open raises; "malformed": a line raises before a default route is met;
\* "nodefault"; "default": a default route through gateway_ip), whether the
\* session is Wayland and whether mss can be used
World(e, rs, os, rt) ==
    [env_url |-> e, responders |-> rs, os_type |-> os, route |-> rt,
     gateway_ip |-> "172.17.0.1", wayland |-> FALSE, mss_ok |-> TRUE]

DefaultWorld == World(None, {LocalhostUrl}, "Linux", "nodefault")

\* What the backends of one capture_screen call do.  A library grab gives an
\* "image", an image the encoder fails on ("unencodable"), or "raises".  An
\* external tool returns leaving an "image", an "unencodable" image, a non-empty
\* file that is no image ("garbage"), an "empty" file or "nofile"; or
\* subprocess.run "raises" (tool missing, timeout, and for screencapture a
\* non-zero exit), possibly after the tool has written an image
\* ("raises_image").  synth says whether the encoder works on the test pattern.
LibraryOutcomes == {"image", "unencodable", "raises"}
ToolOutcomes == {"image", "unencodable", "garbage", "empty", "nofile", "raises", "raises_image"}

Scenario(m, t1, t2, n, y) ==
    [mss |-> m, tools |-> <<t1, t2>>, screencapture |-> n, synth |-> y]

AllScenarios ==
    {Scenario(m, t1, t2, n, y) : m \in LibraryOutcomes, t1 \in ToolOutcomes,
                                 t2 \in ToolOutcomes, n \in ToolOutcomes,
                                 y \in {"image", "unencodable"}}

\* every backend works; no backend works and the test pattern cannot be encoded
AllWork == Scenario("image", "image", "image", "image", "image")
NothingWorks == Scenario("raises", "raises", "raises", "raises", "unencodable")
PlainScenarios == {AllWork, NothingWorks}

\* in addition: the library fails and a later backend, or the test pattern, steps in
CascadeScenarios ==
    PlainScenarios \cup {Scenario("raises", "raises", "image", "image", "image"),
                         Scenario("raises", "nofile", "empty", "raises", "image")}

\* what the environment does during the run: loop iterations explored, signals
\* delivered, responses that carry a config object, the longest duration of a
\* capture or upload call; the health probes explored and their longest
\* duration; the call that is made on the agent: run(), or
\* wait_for_server(timeout); and how many times run() is called
Env(n, s, p, c) ==
    [iters |-> n, signals |-> s, patches |-> p, calltime |-> c,
     attempts |-> MaxAttempts, probetime |-> 0, entry |-> "run", timeout |-> None,
     calls |-> 1, scenarios |-> PlainScenarios]

WaitEnv(t) ==
    [Env(0, 0, 0, 0) EXCEPT !.attempts = MaxWaitAttempts, !.probetime = MaxProbeTime,
                            !.entry = "wait", !.timeout = t]

Run(a, e) == [args |-> a, world |-> DefaultWorld, env |-> e]

\* The runs explored: the constructor's arguments, the world it finds, and what
\* the environment does during the run.
\* Long runs with a frame limit or none, runs with a duration, short runs with
\* configuration patches, short runs with signals.
LimitRuns ==
    {Run(Args(None, m, "png"), Env(MaxIters, 0, 0, 0))
        : m \in {None} \cup {Some(n) : n \in 0..MaxFramesArg}}
DurationRuns ==
    {Run(Args(Some(0), None, "png"), Env(ShortIters, 0, 0, MaxCallTime)),
     Run(Args(Some(5), None, "png"), Env(MaxIters, 0, 0, MaxCallTime))}
PatchRuns ==
    {Run(Args(None, None, f), Env(ShortIters, 0, MaxPatches, 0))
        : f \in {"png", "JPG"}}
SignalRuns ==
    {Run(Args(d, None, "png"), Env(ShortIters, MaxSignals, 0, 0))
        : d \in {None, Some(5)}}

\* one-iteration runs over the constructor's format, quality and interval
FormatArgs == {"PNG", "jpg", "gif", "GIF"}
QualityArgs == {-3, 0, 100, 150}
IntervalArgs == {0, 1}
CtorRuns ==
    {Run([Args(None, None, f) EXCEPT !.quality = q, !.interval = i], Env(1, 0, 0, 0))
        : f \in FormatArgs, q \in QualityArgs, i \in IntervalArgs}

\* runs over the server_url argument and the world (no loop iteration explored)
ExplicitUrl == <<"http://10.0.0.5:9000", "/">>
EnvUrl == <<"http://mediator.lan:8080">>
UrlArgs == {None, Some(<<>>), Some(ExplicitUrl)}
EnvUrls == {None, Some(<<>>), Some(EnvUrl), Some(EnvUrl \o <<"/", "/">>)}
ResponderSets ==
    SUBSET {LocalhostUrl, MediatorUrl, DockerHostUrl, GatewayUrl(DefaultWorld.gateway_ip)}
Worlds ==
    {World(e, rs, os, rt) : e \in EnvUrls, rs \in ResponderSets, os \in {"Linux", "Darwin"},
                            rt \in {"unreadable", "malformed", "nodefault", "default"}}
DiscoveryRuns ==
    {[args |-> [Args(None, None, "png") EXCEPT !.server_url = u], world |-> w,
      env |-> Env(0, 0, 0, 0)] : u \in UrlArgs, w \in Worlds}

\* direct calls of capture_screen() over the platforms, session types and
\* library states, with every behaviour of the backends
Platforms == {"Linux", "Darwin", "Windows"}
CaptureWorlds ==
    {[DefaultWorld EXCEPT !.os_type = os, !.wayland = wl, !.mss_ok = ok]
        : os \in Platforms, wl \in BOOLEAN, ok \in BOOLEAN}
CaptureRuns ==
    {[args |-> Args(None, None, "png"), world |-> w,
      env |-> [Env(0, 0, 0, 0) EXCEPT !.entry = "capture", !.scenarios = AllScenarios]]
        : w \in CaptureWorlds}

\* short runs with a signal in which captures fall back
CascadeRuns ==
    {Run(Args(None, None, "png"),
         [Env(CascadeIters, 1, 0, 0) EXCEPT !.scenarios = CascadeScenarios])}

\* short runs in which run() is called again after it has returned
RestartRuns ==
    {Run(Args(None, m, "png"), [Env(ShortIters, 1, 0, 0) EXCEPT !.calls = MaxCalls])
        : m \in {None, Some(1)}}

\* direct calls of wait_for_server(timeout)
WaitTimeouts == {None, Some(0), Some(1), Some(3)}
WaitRuns == {Run(Args(None, None, "png"), WaitEnv(t)) : t \in WaitTimeouts}

Runs == LimitRuns \cup DurationRuns \cup PatchRuns \cup SignalRuns
        \cup CtorRuns \cup DiscoveryRuns \cup WaitRuns \cup RestartRuns
        \cup CaptureRuns \cup CascadeRuns

PatchIntervals == {0, 2}
PatchFormats == {"webp", "JPG"}
PatchQualities == {50, 150}

\* one field of a config object: absent, a convertible value, or a value the
\* conversion (float(), .lower(), int()) raises on
FieldVals(S) == {[given |-> FALSE, bad |-> FALSE, val |-> {}]}
                \cup {[given |-> TRUE, bad |-> TRUE, val |-> {}]}
                \cup {[given |-> TRUE, bad |-> FALSE, val |-> {v}] : v \in S}

AbsentField == [given |-> FALSE, bad |-> FALSE, val |-> {}]

ConfigObjects == [interval : FieldVals(PatchIntervals),
                  format   : FieldVals(PatchFormats),
                  quality  : FieldVals(PatchQualities)]

EmptyConfig == [interval |-> AbsentField, format |-> AbsentField, quality |-> AbsentField]

\* a response: status "error" (transport error or timeout), "http" (a non-200
\* status) or "ok" (200).  A 200 body is "notjson" (response.json() raises),
\* "notobject" (JSON, but no dict), or "object"; its config key is "absent",
\* "notdict" or "dict"; size_ok says whether size_kb formats with :.1f
NoBody == [kind |-> "none", config |-> "absent", fields |-> EmptyConfig, size_ok |-> TRUE]

Responses ==
    {[status |-> s, body |-> NoBody] : s \in {"error", "http"}}
    \cup {[status |-> "ok", body |-> [NoBody EXCEPT !.kind = k]] : k \in {"notjson", "notobject"}}
    \cup {[status |-> "ok", body |-> [kind |-> "object", config |-> c, fields |-> EmptyConfig, size_ok |-> z]]
            : c \in {"absent", "notdict"}, z \in BOOLEAN}
    \cup {[status |-> "ok", body |-> [kind |-> "object", config |-> "dict", fields |-> f, size_ok |-> z]]
            : f \in ConfigObjects, z \in BOOLEAN}

CarriesConfig(resp) == resp.status = "ok" /\ resp.body.kind = "object" /\ resp.body.config = "dict"

----------------------------------------------------------------------------
(* upload_frame's handling of the response (lines 347-382) *)

TheVal(fld) == CHOOSE v \in fld.val : TRUE

\* new_interval = float(remote.get('interval', self.interval)); assigned if different
ApplyInterval(st, fld) ==
    IF st.raised \/ ~fld.given THEN st
    ELSE IF fld.bad THEN [st EXCEPT !.raised = TRUE]
    ELSE [st EXCEPT !.interval = TheVal(fld)]

\* new_format = remote.get('format', self.format).lower(); assigned if different
ApplyFormat(st, fld) ==
    IF st.raised \/ ~fld.given THEN st
    ELSE IF fld.bad THEN [st EXCEPT !.raised = TRUE]
    ELSE [st EXCEPT !.format = Lower(TheVal(fld))]

\* new_quality = int(remote.get('quality', self.quality)); assigned if different
ApplyQuality(st, fld) ==
    IF st.raised \/ ~fld.given THEN st
    ELSE IF fld.bad THEN [st EXCEPT !.raised = TRUE]
    ELSE [st EXCEPT !.quality = TheVal(fld)]

\* if 'config' in result: ... the three updates in the order interval, format, quality
ApplyConfig(st, body) ==
    IF body.config = "absent" THEN st
    ELSE IF body.config = "notdict" THEN [st EXCEPT !.raised = TRUE]
    ELSE ApplyQuality(ApplyFormat(ApplyInterval(st, body.fields.interval),
                                  body.fields.format),
                      body.fields.quality)

\* the status == 200 branch: retry_delay reset first, then json(), the patch,
\* the progress line; any exception leaves what was assigned before it
On200(st, body) ==
    LET s0 == [st EXCEPT !.retry_delay = InitialRetryDelay]
    IN  IF body.kind # "object" THEN [s0 EXCEPT !.raised = TRUE]
        ELSE LET s1 == ApplyConfig(s0, body)
             IN  IF s1.raised THEN s1
                 ELSE IF ~body.size_ok THEN [s1 EXCEPT !.raised = TRUE]
                 ELSE s1

\* the try block: a non-200 status raises, a transport error raises in requests.post
TryUpload(st, resp) ==
    IF resp.status = "ok" THEN On200(st, resp.body)
    ELSE [st EXCEPT !.raised = TRUE]

\* self.retry_delay = min(self.retry_delay * 2, 30)
BackoffNext(d) == Min(d * 2, BackoffCap)

\* _encode_image: the codec chosen from self.format, and the quality handed to it
Codec(fmt) ==
    CASE fmt = "png"  -> "PNG"
      [] fmt = "webp" -> "WEBP"
      [] fmt = "bmp"  -> "BMP"
      [] fmt = "tiff" -> "TIFF"
      [] OTHER        -> "JPEG"

EncodeImage(fmt, q) == [format |-> fmt, codec |-> Codec(fmt), quality |-> q]

\* the multipart form always announcing jpeg
UploadRequestAsJpeg(fid, fmt) ==
    [frame_id |-> fid, format |-> "jpeg", mime |-> <<"image/", "jpeg">>,
     filename |-> <<"frame.", "jpeg">>]

\* the multipart form of upload_frame (lines 326-334)
UploadRequest(fid, fmt) ==
    [frame_id |-> fid, format |-> fmt, mime |-> <<"image/", fmt>>, filename |-> <<"frame.", fmt>>]

\* a response as upload_frame tells them apart: 200 or anything else
StatusClass(resp) == IF resp.status = "ok" THEN "ok" ELSE "fail"

\* what a response carries in well-formed config fields
Carried(resp) ==
    IF CarriesConfig(resp)
    THEN [interval |-> resp.body.fields.interval.val,
          format   |-> resp.body.fields.format.val,
          quality  |-> resp.body.fields.quality.val]
    ELSE [interval |-> {}, format |-> {}, quality |-> {}]

----------------------------------------------------------------------------
(* capture_screen and its backends (lines 206-322).  A result records the     *)
(* backends tried with what each did, the backend whose image is returned,    *)
(* whether the call raised, and what is left of the call's temporary file.    *)

\* the chain with gnome-screenshot first
ToolChainReversed == <<"gnome-screenshot", "flameshot">>

\* the commands of _capture_linux_fallback, in the order of lines 278-281
ToolChain == <<"flameshot", "gnome-screenshot">>

\* _generate_test_pattern: the encoder's exception is not caught
GenerateTestPattern(sc, steps, file) ==
    [steps |-> Append(steps, [backend |-> "test_pattern", outcome |-> sc.synth]),
     source |-> "test_pattern", raised |-> sc.synth # "image", file |-> file]

\* the temporary file after a tool that did k was run on file f
FileAfter(f, k) ==
    CASE k \in {"image", "raises_image"} -> "image"
      [] k \in {"unencodable", "garbage", "empty"} -> k
      [] OTHER -> f

\* the for loop of _capture_linux_fallback from its i-th command on: an exception
\* of subprocess.run, of Image.open or of _encode_image continues with the next
\* command; the file is looked at only after a command that returned, and is
\* removed once Image.open has succeeded
RECURSIVE ToolsFrom(_, _, _, _)
ToolsFrom(i, f, sc, steps) ==
    IF i > Len(ToolChain) THEN GenerateTestPattern(sc, steps, f)
    ELSE LET k  == sc.tools[i]
             f1 == FileAfter(f, k)
             st == Append(steps, [backend |-> ToolChain[i], outcome |-> k])
         IN  IF k \in {"raises", "raises_image"} THEN ToolsFrom(i + 1, f1, sc, st)
             ELSE IF f1 \in {"none", "empty", "garbage"} THEN ToolsFrom(i + 1, f1, sc, st)
             ELSE IF f1 = "unencodable" THEN ToolsFrom(i + 1, "none", sc, st)
             ELSE [steps |-> st, source |-> ToolChain[i], raised |-> FALSE, file |-> "none"]

CaptureLinuxFallback(sc, steps) == ToolsFrom(1, "none", sc, steps)

\* _capture_macos: any exception ends in the test pattern
CaptureMacos(sc, steps) ==
    LET k  == sc.screencapture
        st == Append(steps, [backend |-> "screencapture", outcome |-> k])
    IN  IF k = "image"
        THEN [steps |-> st, source |-> "screencapture", raised |-> FALSE, file |-> "none"]
        ELSE GenerateTestPattern(sc, st, IF k = "unencodable" THEN "none"
                                         ELSE FileAfter("none", k))

\* _capture_mss whose except clause re-raises
CaptureMssNoFallback(os, sc) ==
    [steps |-> <<[backend |-> "mss", outcome |-> sc.mss]>>, source |-> "mss",
     raised |-> sc.mss # "image", file |-> "none"]

\* _capture_mss: any exception falls back to the platform's tools
CaptureMss(os, sc) ==
    LET st == <<[backend |-> "mss", outcome |-> sc.mss]>>
    IN  IF sc.mss = "image"
        THEN [steps |-> st, source |-> "mss", raised |-> FALSE, file |-> "none"]
        ELSE IF os = "Linux" THEN CaptureLinuxFallback(sc, st)
        ELSE IF os = "Darwin" THEN CaptureMacos(sc, st)
        ELSE GenerateTestPattern(sc, st, "none")

\* capture_screen: the dispatch on self.capture_method
CaptureResult(method, os, sc) ==
    IF method = "mss" THEN CaptureMss(os, sc)
    ELSE IF method = "linux_system" THEN CaptureLinuxFallback(sc, <<>>)
    ELSE IF method = "macos_screencapture" THEN CaptureMacos(sc, <<>>)
    ELSE GenerateTestPattern(sc, <<>>, "none")

\* a capture that ended in the test pattern makes it the stored strategy
MethodAfterCaptureFollows(method, res) ==
    IF res.source = "test_pattern" THEN "test_pattern" ELSE method

\* capture_screen and its backends read self.capture_method and never assign it
MethodAfterCapture(method, res) == method

----------------------------------------------------------------------------
(* _should_stop (lines 186-203) *)

DurationReached ==
    Truthy(duration) /\ start_time # None /\ now - start_time[1] >= duration[1]

\* the frame limit tested with > in place of >=
FrameLimitReachedStrict ==
    Truthy(max_frames) /\ frame_id > max_frames[1]

FrameLimitReached ==
    Truthy(max_frames) /\ frame_id >= max_frames[1]

\* _should_stop without its test of self.running
ShouldStopIgnoresFlag == DurationReached \/ FrameLimitReached

ShouldStop == ~running \/ DurationReached \/ FrameLimitReached

\* the remainder computed as elapsed - interval
SleepTimeReversed(ivl, cost) == Max(0, cost - ivl)

\* the remainder without its floor
SleepTimeUnfloored(ivl, cost) == ivl - cost

\* sleep_time = max(0, self.interval - elapsed)
SleepTime(ivl, cost) == Max(0, ivl - cost)

----------------------------------------------------------------------------
(* __init__ (lines 43-90), detect_mediator (99-134), _detect_capture_method *)

\* the Linux gateway lookup: a candidate only when a default route is found; any
\* exception of the lookup is swallowed
GatewayCandidates(w) ==
    IF w.os_type = "Linux" /\ w.route = "default" THEN <<GatewayUrl(w.gateway_ip)>> ELSE <<>>

\* the gateway candidate placed first
CandidatesGatewayFirst(w) ==
    GatewayCandidates(w) \o <<LocalhostUrl, MediatorUrl, DockerHostUrl>>

Candidates(w) == <<LocalhostUrl, MediatorUrl, DockerHostUrl>> \o GatewayCandidates(w)

\* for url in candidates: requests.get(url/health, timeout=1); return url on any
\* answer, continue on any exception; the default after the last candidate
RECURSIVE ProbeFrom(_, _, _)
ProbeFrom(cands, i, w) ==
    IF i > Len(cands) THEN [url |-> DefaultUrl, probes |-> cands, env_read |-> TRUE]
    ELSE IF cands[i] \in w.responders
         THEN [url |-> cands[i], probes |-> SubSeq(cands, 1, i), env_read |-> TRUE]
         ELSE ProbeFrom(cands, i + 1, w)

\* detect_mediator with the environment variable consulted after the probes
DetectMediatorProbesFirst(w) ==
    LET found == ProbeFrom(Candidates(w), 1, w)
    IN  IF StrTruthy(w.env_url) THEN [found EXCEPT !.url = Rstrip(w.env_url[1])] ELSE found

DetectMediator(w) ==
    IF StrTruthy(w.env_url)
    THEN [url |-> Rstrip(w.env_url[1]), probes |-> <<>>, env_read |-> TRUE]
    ELSE ProbeFrom(Candidates(w), 1, w)

\* the selection with the library tried before the Wayland check
DetectCaptureMethodLibraryFirst(w) ==
    IF w.mss_ok THEN "mss"
    ELSE IF w.os_type = "Darwin" THEN "macos_screencapture"
    ELSE IF w.os_type = "Linux" THEN "linux_system"
    ELSE "test_pattern"

\* _detect_capture_method (lines 137-161)
DetectCaptureMethod(w) ==
    IF w.os_type = "Linux" /\ w.wayland THEN "linux_system"
    ELSE IF w.mss_ok THEN "mss"
    ELSE IF w.os_type = "Darwin" THEN "macos_screencapture"
    ELSE IF w.os_type = "Linux" THEN "linux_system"
    ELSE "test_pattern"

\* lines 64-69: the explicit URL if it is non-empty, else detect_mediator()
ResolveServerUrl(a, w) ==
    IF StrTruthy(a.server_url)
    THEN [url |-> Rstrip(a.server_url[1]), probes |-> <<>>, env_read |-> FALSE]
    ELSE DetectMediator(w)

\* __init__ run to its end
Constructed(a, w) ==
    [raised |-> FALSE, interval |-> a.interval, format |-> InitFormat(a.format),
     quality |-> InitQuality(a.quality),
     server_url |-> Some(ResolveServerUrl(a, w).url),
     probes |-> ResolveServerUrl(a, w).probes,
     env_read |-> ResolveServerUrl(a, w).env_read,
     capture_method |-> DetectCaptureMethod(w), handlers |-> TRUE]

\* __init__ left by the ValueError of line 60
Rejected(a) ==
    [raised |-> TRUE, interval |-> a.interval, format |-> Lower(a.format),
     quality |-> InitQuality(a.quality),
     server_url |-> None, probes |-> <<>>, env_read |-> FALSE,
     capture_method |-> "", handlers |-> FALSE]

\* the format validated at the end of __init__
ConstructValidatesLast(a, w) ==
    IF Lower(a.format) \notin AcceptedFormats
    THEN [Constructed(a, w) EXCEPT !.raised = TRUE, !.format = Lower(a.format)]
    ELSE Constructed(a, w)

Construct(a, w) ==
    IF Lower(a.format) \notin AcceptedFormats THEN Rejected(a) ELSE Constructed(a, w)

----------------------------------------------------------------------------
(* config.py: DEFAULT_CONFIG and ConfigManager.  A dict is held by reference:   *)
(* the nested dicts of DEFAULT_CONFIG ("sections") live in cm.secs and a        *)
(* top-level dict maps a key to a scalar or to a reference to a section.  Of    *)
(* DEFAULT_CONFIG the sections capture and server are kept, with two and one    *)
(* of their fields.                                                             *)

SectionKeys == {"capture", "server"}
TopKeys == SectionKeys \cup {"theme"}

Absent == [kind |-> "absent", ref |-> "", s |-> ""]
Scalar(v) == [kind |-> "scalar", ref |-> "", s |-> v]
Ref(r) == [kind |-> "ref", ref |-> r, s |-> ""]

\* the dict literal of lines 11-43
DefaultSections ==
    [r \in SectionKeys |->
        IF r = "capture" THEN [f \in {"interval", "format"} |->
                                  IF f = "interval" THEN "1.5" ELSE "png"]
        ELSE [f \in {"port"} |-> "8080"]]
DefaultTop == [k \in TopKeys |-> IF k \in SectionKeys THEN Ref(k) ELSE Absent]

\* the value of a dict with its nested dicts written out (what yaml.dump writes
\* and yaml.safe_load reads)
NoDict == [f \in {} |-> ""]
Snapshot(top, secs) ==
    [k \in TopKeys |->
        IF top[k].kind = "ref" THEN [kind |-> "dict", s |-> "", d |-> secs[top[k].ref]]
        ELSE [kind |-> top[k].kind, s |-> top[k].s, d |-> NoDict]]
DefaultTree == Snapshot(DefaultTop, DefaultSections)

\* dict.copy(): a new top-level dict with the same values, nested dicts shared
ShallowCopy(top) == [k \in DOMAIN top |-> top[k]]

\* d[f] = v on a nested dict
Assign(d, f, v) == [g \in DOMAIN d \cup {f} |-> IF g = f THEN v ELSE d[g]]

\* _deep_merge(base, override) (lines 67-73) with base = top: a dict of the
\* override under a key whose base value is a dict is merged into that dict,
\* any other value replaces the base value.  (The overrides explored carry
\* dicts under the section keys only.)
MergedSection(d, o) ==
    [f \in DOMAIN d \cup DOMAIN o |-> IF f \in DOMAIN o THEN o[f] ELSE d[f]]
DeepMerge(top, secs, tree) ==
    [top  |-> [k \in TopKeys |->
                  IF tree[k].kind = "scalar" THEN Scalar(tree[k].s) ELSE top[k]],
     secs |-> [r \in SectionKeys |->
                  IF \E k \in TopKeys : /\ tree[k].kind = "dict"
                                        /\ top[k] = Ref(r)
                  THEN MergedSection(secs[r],
                                     tree[CHOOSE k \in TopKeys : /\ tree[k].kind = "dict"
                                                                 /\ top[k] = Ref(r)].d)
                  ELSE secs[r]]]

\* _load (lines 53-64) with the file f
NoFile == [exists |-> FALSE, tree |-> Snapshot([k \in TopKeys |-> Absent], DefaultSections)]
Load(secs, f) ==
    IF ~f.exists THEN [top |-> ShallowCopy(DefaultTop), secs |-> secs]
    ELSE DeepMerge(ShallowCopy(DefaultTop), secs, f.tree)

\* set(key, value) (lines 97-107) for a one- or a two-part key
SetKey(top, secs, path, v) ==
    IF Len(path) = 1 THEN [top |-> [top EXCEPT ![path[1]] = Scalar(v)], secs |-> secs]
    ELSE [top  |-> top,
          secs |-> [secs EXCEPT ![top[path[1]].ref] = Assign(@, path[2], v)]]

\* the calls explored: keys and values of set(), user files found at start
SetPaths == {<<"capture", "interval">>, <<"server", "port">>, <<"theme">>}
SetValues == {"5", "dark"}
UserTree ==
    [k \in TopKeys |->
        IF k = "capture" THEN [kind |-> "dict", s |-> "", d |-> [f \in {"format"} |-> "webp"]]
        ELSE [kind |-> "absent", s |-> "", d |-> NoDict]]
UserFiles == {NoFile, [exists |-> TRUE, tree |-> UserTree]}
Managers == {1, 2}

\* the module imported, no ConfigManager constructed yet
ConfigStart(f) ==
    [secs |-> DefaultSections, inst |-> [i \in Managers |-> [made |-> FALSE, top |-> DefaultTop]],
     file |-> f, ops |-> 0, last |-> [op |-> "none", inst |-> 0]]

----------------------------------------------------------------------------
(* core/metrics.py: MetricsCollector.  t is the clock read by time.time(). *)

\* the dict of lines 12-18 and 45-51
FreshMetrics(t) ==
    [captures_total |-> 0, captures_success |-> 0, captures_failed |-> 0,
     bytes_uploaded |-> 0, start_time |-> t]

\* record_capture that adds the size whatever the outcome
RecordedAddsAlways(m, success, size) ==
    [m EXCEPT !.captures_total = @ + 1,
              !.captures_success = IF success THEN @ + 1 ELSE @,
              !.bytes_uploaded = @ + size,
              !.captures_failed = IF success THEN @ ELSE @ + 1]

\* record_capture(success, size_bytes) (lines 21-28)
Recorded(m, success, size) ==
    [m EXCEPT !.captures_total = @ + 1,
              !.captures_success = IF success THEN @ + 1 ELSE @,
              !.bytes_uploaded = IF success THEN @ + size ELSE @,
              !.captures_failed = IF success THEN @ ELSE @ + 1]

SizeArgs == {0, 1, 2}
NoCall == [op |-> "none", success |-> FALSE, size |-> 0]
MetricsStart == [m |-> FreshMetrics(0), t |-> 0, last |-> NoCall]

----------------------------------------------------------------------------
(* core/session.py: Session and SessionManager.  t is the clock read by        *)
(* datetime.now(); the ids are the values uuid4() returns, in the order in     *)
(* which it returns them.                                                      *)

SessionIds == <<"id1", "id2">>
UnknownId == "id9"

\* Session.__init__ (lines 11-18) at time t
NewSession(t) == [start_time |-> t, end_time |-> None, status |-> "active"]

\* stop_session(id) (lines 55-60) on the dict tab at time t
StopSession(tab, id, t) ==
    IF id \in DOMAIN tab
    THEN [tab EXCEPT ![id] = [@ EXCEPT !.end_time = Some(t), !.status = "stopped"]]
    ELSE tab

\* get_active_sessions() (lines 68-70), as the set of the sessions' ids
ActiveSessions(tab) == {id \in DOMAIN tab : tab[id].status = "active"}

NoTable == [id \in {} |-> NewSession(0)]
SessionsStart ==
    [tab |-> NoTable, t |-> 0, ops |-> 0, last |-> [op |-> "none", id |-> ""],
     stopped |-> {}]

----------------------------------------------------------------------------
(* integrations/stream.py: StreamManager.  stream_frames is a coroutine: it     *)
(* runs from one await to the next, and stop() can be called before it has      *)
(* begun to run and whenever it is suspended in an await.                       *)

\* lines 24-25: a text frame is encoded, a binary frame is passed as it is
FrameKinds == {"str", "bytes"}
CallbackArg(kind) == IF kind = "str" THEN "bytes" ELSE kind

\* line 18: the scheme of the WebSocket URL
WsScheme(scheme) ==
    IF scheme = "http://" THEN "ws://"
    ELSE IF scheme = "https://" THEN "wss://"
    ELSE scheme
Schemes == {"http://", "https://", "ws://"}

\* StreamManager(server_url).__init__ (lines 11-13); stream_frames not called yet
StreamMade(scheme) ==
    [scheme |-> scheme, ws |-> "", running |-> FALSE, pc |-> "none", frames |-> 0,
     callbacks |-> 0, received |-> "", passed |-> "", stops |-> 0]
StreamStart == StreamMade("http://")

----------------------------------------------------------------------------
(* Initial state: the agent as __init__ leaves it *)

NoRequest == [frame_id |-> -1, format |-> "", mime |-> <<"image/", "">>, filename |-> <<"frame.", "">>]
NoShot == [steps |-> <<>>, source |-> "", raised |-> FALSE, file |-> "none"]
NoLast == [status |-> "none", returned |-> FALSE,
           cfg |-> [interval |-> {}, format |-> {}, quality |-> {}]]

\* Agent(**r.args) in the world r.world, to be used as r.env says
InitRun(r) ==
    /\ args = r.args
    /\ world = r.world
    /\ env = r.env
    /\ duration = r.args.duration
    /\ max_frames = r.args.max_frames
    /\ interval = Construct(r.args, r.world).interval
    /\ format = Construct(r.args, r.world).format
    /\ quality = Construct(r.args, r.world).quality
    /\ server_url = Construct(r.args, r.world).server_url
    /\ probes = Construct(r.args, r.world).probes
    /\ env_read = Construct(r.args, r.world).env_read
    /\ capture_method = Construct(r.args, r.world).capture_method
    /\ handlers = Construct(r.args, r.world).handlers
    /\ timeout = None
    /\ wait_start = 0
    /\ frame_id = 0
    /\ retry_delay = InitialRetryDelay
    /\ running = FALSE
    /\ start_time = None
    /\ pc = IF Construct(r.args, r.world).raised THEN "ctor_error" ELSE "idle"
    /\ attempt = 0
    /\ loop_start = 0
    /\ elapsed = 0
    /\ sleep_time = 0
    /\ now = 0
    /\ hstack = <<>>
    /\ enc = EncodeImage("", 0)
    /\ shot = NoShot
    /\ request = NoRequest
    /\ last = NoLast
    /\ obs = [iters |-> 0, captures |-> 0, uploadsOk |-> 0, summaries |-> 0,
              signals |-> 0, sigInSleep |-> 0, sigWait |-> FALSE, sigRunning |-> FALSE,
              patches |-> 0, failRun |-> 0, lastBackoff |-> 0,
              probe |-> "none", ivlAtStart |-> 0, heartbeats |-> 0, waitSleeps |-> 0,
              calls |-> 0, warned |-> FALSE, reported |-> -1]

\* the other classes of the package are not used by the agent
ConfigUnused == cm = ConfigStart(NoFile)
MetricsUnused == metrics = MetricsStart
SessionsUnused == sessions = SessionsStart
StreamUnused == stream = StreamStart
Unused == ConfigUnused /\ MetricsUnused /\ SessionsUnused /\ StreamUnused

Init == Unused /\ \E r \in Runs : InitRun(r)

cfgVars == <<args, world, server_url, probes, env_read, handlers,
             duration, max_frames, env, cm, metrics, sessions, stream>>
waitVars == <<timeout, wait_start>>
agentVars == <<interval, format, quality, frame_id, retry_delay>>
localVars == <<attempt, loop_start, elapsed, sleep_time>>
ioVars == <<enc, shot, request, last>>

\* the main thread advances only when no handler frame is on top of it
MainRuns == hstack = <<>>

----------------------------------------------------------------------------
(* start() and wait_for_server() *)

\* if timeout and (time.time() - start_time > timeout)
TimedOut == Truthy(timeout) /\ now - wait_start > timeout[1]

\* run() -> start() -> wait_for_server(): no timeout is passed; attempt = 0,
\* start_time = time.time().  run() is called on a fresh agent, or again on an
\* agent whose earlier run() has returned: nothing in run() or start() tells
\* the two apart.
RunCall ==
    /\ MainRuns /\ pc \in {"idle", "done"}
    /\ env.entry = "run"
    /\ obs.calls < env.calls
    /\ pc' = "wait"
    /\ attempt' = 0
    /\ timeout' = None
    /\ wait_start' = now
    /\ obs' = [obs EXCEPT !.calls = @ + 1]
    /\ UNCHANGED <<cfgVars, capture_method, agentVars, running, start_time, loop_start, elapsed,
                   sleep_time, now, hstack, ioVars>>

\* wait_for_server(timeout) called on the agent directly
WaitCall ==
    /\ MainRuns /\ pc = "idle"
    /\ env.entry = "wait"
    /\ pc' = "wait"
    /\ attempt' = 0
    /\ timeout' = env.timeout
    /\ wait_start' = now
    /\ UNCHANGED <<cfgVars, capture_method, agentVars, running, start_time, loop_start, elapsed,
                   sleep_time, now, hstack, ioVars, obs>>

\* the head of wait_for_server's loop finds the timeout exceeded: return False
\* (to start(), run() then exits before its try block)
WaitTimeout ==
    /\ MainRuns /\ pc = "wait"
    /\ TimedOut
    /\ pc' = IF env.entry = "run" THEN "exit" ELSE "wait_false"
    /\ UNCHANGED <<cfgVars, capture_method, waitVars, agentVars, running, start_time, localVars, now,
                   hstack, ioVars, obs>>

\* one pass of wait_for_server's loop whose probe, after d seconds, answered 200:
\* return True.  In run() the rest of start() follows (running = True,
\* start_time = now) and the frame of wait_for_server is gone.
ServerReady(d) ==
    /\ MainRuns /\ pc = "wait"
    /\ ~TimedOut
    /\ attempt < env.attempts
    /\ now' = now + d
    /\ obs' = [obs EXCEPT !.probe = "ok"]
    /\ IF env.entry = "run"
       THEN /\ attempt' = 0
            /\ running' = TRUE
            /\ start_time' = Some(now + d)
            /\ pc' = "check"
       ELSE /\ attempt' = attempt + 1
            /\ pc' = "wait_true"
            /\ UNCHANGED <<running, start_time>>
    /\ UNCHANGED <<cfgVars, capture_method, waitVars, agentVars, loop_start, elapsed, sleep_time, hstack,
                   ioVars>>

\* one pass of wait_for_server's loop whose probe, after d seconds, got a non-200
\* answer (k = "http") or raised (k = "error"): the sleep is taken on every
\* HeartbeatEvery-th attempt only
ServerNotReady(d, k) ==
    /\ MainRuns /\ pc = "wait"
    /\ ~TimedOut
    /\ attempt < env.attempts
    /\ attempt' = attempt + 1
    /\ now' = IF (attempt + 1) % HeartbeatEvery = 0 THEN now + d + WaitSleepSeconds
                                                    ELSE now + d
    /\ obs' = [obs EXCEPT !.probe = k,
                          !.heartbeats = IF (attempt + 1) % HeartbeatEvery = 0 THEN @ + 1 ELSE @,
                          !.waitSleeps = IF (attempt + 1) % HeartbeatEvery = 0 THEN @ + 1 ELSE @]
    /\ UNCHANGED <<cfgVars, capture_method, waitVars, agentVars, running, start_time, pc, loop_start,
                   elapsed, sleep_time, hstack, ioVars>>

----------------------------------------------------------------------------
(* run(): the loop (lines 415-435) *)

\* while not self._should_stop(): the condition holds, the loop is left and the
\* finally clause calls stop()
LoopExit ==
    /\ MainRuns /\ pc = "check"
    /\ ShouldStop
    /\ pc' = "stop_test"
    /\ UNCHANGED <<cfgVars, capture_method, waitVars, agentVars, running, start_time, localVars, now, hstack,
                   ioVars, obs>>

\* while not self._should_stop(): an iteration begins, loop_start = time.time()
LoopIterate ==
    /\ MainRuns /\ pc = "check"
    /\ ~ShouldStop
    /\ obs.iters < env.iters
    /\ loop_start' = now
    /\ pc' = "capture"
    /\ obs' = [obs EXCEPT !.iters = @ + 1, !.ivlAtStart = interval]
    /\ UNCHANGED <<cfgVars, capture_method, waitVars, agentVars, running, start_time, attempt, elapsed,
                   sleep_time, now, hstack, ioVars>>

\* capture_screen() called on the agent directly
CaptureCall ==
    /\ MainRuns /\ pc = "idle"
    /\ env.entry = "capture"
    /\ pc' = "capture"
    /\ UNCHANGED <<cfgVars, capture_method, waitVars, agentVars, running, start_time,
                   localVars, now, hstack, ioVars, obs>>

\* data = self.capture_screen() returns: the backends do what sc says, the image
\* returned is encoded with the current format and quality; the call takes d
\* seconds
CaptureScreen(d, sc) ==
    /\ MainRuns /\ pc = "capture"
    /\ ~CaptureResult(capture_method, world.os_type, sc).raised
    /\ now' = now + d
    /\ shot' = CaptureResult(capture_method, world.os_type, sc)
    /\ capture_method' = MethodAfterCapture(capture_method,
                                            CaptureResult(capture_method, world.os_type, sc))
    /\ enc' = EncodeImage(format, quality)
    /\ pc' = IF env.entry = "capture" THEN "captured" ELSE "upload"
    /\ obs' = [obs EXCEPT !.captures = @ + 1]
    /\ UNCHANGED <<cfgVars, waitVars, agentVars, running, start_time, localVars, hstack,
                   request, last>>

\* capture_screen raises (the encoder fails on the test pattern): in run() the
\* loop's except clause sleeps the cooldown
CaptureRaises(d, sc) ==
    /\ MainRuns /\ pc = "capture"
    /\ CaptureResult(capture_method, world.os_type, sc).raised
    /\ now' = now + d
    /\ shot' = CaptureResult(capture_method, world.os_type, sc)
    /\ capture_method' = MethodAfterCapture(capture_method,
                                            CaptureResult(capture_method, world.os_type, sc))
    /\ pc' = IF env.entry = "capture" THEN "capture_raised" ELSE "cooldown"
    /\ obs' = [obs EXCEPT !.captures = @ + 1]
    /\ UNCHANGED <<cfgVars, waitVars, agentVars, running, start_time, localVars, hstack,
                   enc, request, last>>

\* an except clause that leaves the loop after its sleep
CooldownLeavesLoop ==
    /\ MainRuns /\ pc = "cooldown"
    /\ now' = now + CooldownSeconds
    /\ pc' = "stop_test"
    /\ UNCHANGED <<cfgVars, capture_method, waitVars, agentVars, running, start_time, localVars, hstack, ioVars, obs>>

\* time.sleep(2) of the loop's except clause
Cooldown ==
    /\ MainRuns /\ pc = "cooldown"
    /\ now' = now + CooldownSeconds
    /\ pc' = "sleep"
    /\ UNCHANGED <<cfgVars, capture_method, waitVars, agentVars, running, start_time, localVars, hstack, ioVars, obs>>

\* frame_id incremented whatever upload_frame returned
AfterUploadAlways(fid, ok) == fid + 1

\* if self.upload_frame(data): self.frame_id += 1
AfterUpload(fid, ok) == IF ok THEN fid + 1 ELSE fid

\* upload_frame(data) up to its return True or to its time.sleep(retry_delay);
\* on True the loop increments frame_id.  The request takes d seconds.
UploadFrame(d, resp) ==
    /\ MainRuns /\ pc = "upload"
    /\ CarriesConfig(resp) => obs.patches < env.patches
    /\ LET st  == [interval |-> interval, format |-> format, quality |-> quality,
                   retry_delay |-> retry_delay, raised |-> FALSE]
           res == TryUpload(st, resp)
       IN  /\ request' = UploadRequest(frame_id, format)
           /\ now' = now + d
           /\ interval' = res.interval
           /\ format' = res.format
           /\ quality' = res.quality
           /\ retry_delay' = res.retry_delay
           /\ last' = [status |-> StatusClass(resp), returned |-> ~res.raised, cfg |-> Carried(resp)]
           /\ IF res.raised
              THEN /\ pc' = "backoff"
                   /\ frame_id' = AfterUpload(frame_id, FALSE)
                   /\ obs' = [obs EXCEPT !.failRun = @ + 1,
                                         !.patches = IF CarriesConfig(resp) THEN @ + 1 ELSE @]
              ELSE /\ pc' = "sleep"
                   /\ frame_id' = AfterUpload(frame_id, TRUE)
                   /\ obs' = [obs EXCEPT !.failRun = 0, !.uploadsOk = @ + 1,
                                         !.patches = IF CarriesConfig(resp) THEN @ + 1 ELSE @]
    /\ UNCHANGED <<cfgVars, capture_method, waitVars, running, start_time, localVars, hstack,
                   enc, shot>>

\* if self.retry_delay < 10: print("[!] Upload Failed ... Backing off {d}s...")
UploadWarns(d) == d < WarnBelow

\* the except clause of upload_frame: the warning if the delay is below 10,
\* time.sleep(self.retry_delay), then the delay is doubled up to the cap,
\* return False
BackoffSleep ==
    /\ MainRuns /\ pc = "backoff"
    /\ now' = now + retry_delay
    /\ retry_delay' = BackoffNext(retry_delay)
    /\ pc' = "sleep"
    /\ obs' = [obs EXCEPT !.lastBackoff = retry_delay, !.warned = UploadWarns(retry_delay)]
    /\ UNCHANGED <<cfgVars, capture_method, waitVars, interval, format, quality, frame_id, running, start_time,
                   localVars, hstack, ioVars>>

\* elapsed = time.time() - loop_start; sleep_time = max(0, interval - elapsed);
\* time.sleep is entered only if sleep_time > 0
SleepBegin ==
    /\ MainRuns /\ pc = "sleep"
    /\ elapsed' = now - loop_start
    /\ sleep_time' = SleepTime(interval, now - loop_start)
    /\ pc' = IF SleepTime(interval, now - loop_start) > 0 THEN "sleeping" ELSE "check"
    /\ UNCHANGED <<cfgVars, capture_method, waitVars, agentVars, running, start_time, attempt, loop_start, now,
                   hstack, ioVars, obs>>

\* time.sleep(sleep_time) returns
SleepEnd ==
    /\ MainRuns /\ pc = "sleeping"
    /\ now' = now + sleep_time
    /\ sleep_time' = 0
    /\ pc' = "check"
    /\ UNCHANGED <<cfgVars, capture_method, waitVars, agentVars, running, start_time, attempt, loop_start,
                   elapsed, hstack, ioVars, obs>>

----------------------------------------------------------------------------
(* stop() (lines 401-407), called by run()'s finally clause and by the handler *)

\* stop() without its test of self.running
StopTestAlways == TRUE

\* if self.running:
StopTestPasses == running

\* self.running = False; the two summary lines are printed
StopBodyRunning == FALSE
StopBodySummaries(n) == n + 1
\* print(f"[INFO] Captured {self.frame_id} frames in {elapsed:.1f}s")
StopBodyReports(fid) == fid

\* finally: self.stop() -- the test
StopTest ==
    /\ MainRuns /\ pc = "stop_test"
    /\ pc' = IF StopTestPasses THEN "stop_body" ELSE "done"
    /\ UNCHANGED <<cfgVars, capture_method, waitVars, agentVars, running, start_time, localVars, now, hstack,
                   ioVars, obs>>

\* finally: self.stop() -- the body
StopBody ==
    /\ MainRuns /\ pc = "stop_body"
    /\ running' = StopBodyRunning
    /\ obs' = [obs EXCEPT !.summaries = StopBodySummaries(@),
                          !.reported = StopBodyReports(frame_id)]
    /\ pc' = "done"
    /\ UNCHANGED <<cfgVars, capture_method, waitVars, agentVars, start_time, localVars, now, hstack, ioVars>>

----------------------------------------------------------------------------
(* _signal_handler (lines 93-96).  A handler frame is at "print" (line 95),    *)
(* at "test" (stop()'s if) or at "body" (stop()'s assignment and summary).     *)

\* the positions of the main thread inside the while loop
LoopPcs == {"check", "capture", "upload", "backoff", "cooldown", "sleep", "sleeping"}

Top == hstack[Len(hstack)]
Pop == SubSeq(hstack, 1, Len(hstack) - 1)

\* the code that is executing: the innermost handler frame, else the main thread
InStopWindow ==
    IF hstack = <<>> THEN pc = "stop_body" ELSE Top = "body"

Deliver ==
    /\ handlers
    /\ pc # "done"
    /\ obs.signals < env.signals
    /\ hstack' = Append(hstack, "print")
    /\ obs' = [obs EXCEPT !.signals = @ + 1,
                          !.sigInSleep = IF pc = "sleeping" THEN @ + 1 ELSE @,
                          !.sigWait = @ \/ pc = "wait",
                          !.sigRunning = @ \/ (running /\ pc \in LoopPcs)]
    /\ UNCHANGED <<cfgVars, capture_method, waitVars, agentVars, running, start_time, pc, localVars, now, ioVars>>

\* SIGINT / SIGTERM handled where the interpreter checks for pending signals (at
\* calls, loop back-edges and inside blocking calls): anywhere but between
\* stop()'s test and its assignment
Signal == ~InStopWindow /\ Deliver

\* a handler that starts between stop()'s test of self.running and its assignment
SignalInStopWindow == InStopWindow /\ Deliver

\* print("[INFO] Stop signal received..."), then self.stop() is called
HandlerPrint ==
    /\ hstack # <<>> /\ Top = "print"
    /\ hstack' = Append(Pop, "test")
    /\ UNCHANGED <<cfgVars, capture_method, waitVars, agentVars, running, start_time, pc, localVars, now, ioVars, obs>>

\* the handler's stop(): the test; the handler returns if it fails
HandlerStopTest ==
    /\ hstack # <<>> /\ Top = "test"
    /\ hstack' = IF StopTestPasses THEN Append(Pop, "body") ELSE Pop
    /\ UNCHANGED <<cfgVars, capture_method, waitVars, agentVars, running, start_time, pc, localVars, now, ioVars, obs>>

\* the handler's stop(): the body; the handler returns
HandlerStopBody ==
    /\ hstack # <<>> /\ Top = "body"
    /\ running' = StopBodyRunning
    /\ obs' = [obs EXCEPT !.summaries = StopBodySummaries(@),
                          !.reported = StopBodyReports(frame_id)]
    /\ hstack' = Pop
    /\ UNCHANGED <<cfgVars, capture_method, waitVars, agentVars, start_time, pc, localVars, now, ioVars>>

----------------------------------------------------------------------------
(* Specifications *)

CallTimes == 0..env.calltime
ProbeTimes == 0..env.probetime

\* the steps of the program itself (main thread and handler frames)
Step ==
    \/ RunCall
    \/ WaitCall
    \/ WaitTimeout
    \/ \E d \in ProbeTimes : ServerReady(d)
    \/ \E d \in ProbeTimes, k \in {"http", "error"} : ServerNotReady(d, k)
    \/ LoopExit
    \/ LoopIterate
    \/ CaptureCall
    \/ \E d \in CallTimes, sc \in env.scenarios : CaptureScreen(d, sc)
    \/ \E d \in CallTimes, sc \in env.scenarios : CaptureRaises(d, sc)
    \/ Cooldown
    \/ \E d \in CallTimes, resp \in Responses : UploadFrame(d, resp)
    \/ BackoffSleep
    \/ SleepBegin
    \/ SleepEnd
    \/ StopTest
    \/ StopBody
    \/ HandlerPrint
    \/ HandlerStopTest
    \/ HandlerStopBody

Next == Step \/ Signal

Spec == Init /\ [][Next]_vars

\* the runs that receive signals, and the direct calls of wait_for_server and
\* of capture_screen
SignalInit == Unused /\ \E r \in SignalRuns \cup WaitRuns \cup CaptureRuns : InitRun(r)

\* every call of the loop returns or times out, and handlers return: the program's
\* own steps are taken as long as one is possible.  Stated for the runs that
\* receive signals, the only ones in which a stop is requested from outside, and
\* for the direct calls of wait_for_server and of capture_screen.
FairSpec == SignalInit /\ [][Next]_vars /\ WF_vars(Step)

\* handlers may also start between any two steps of stop()
NextAnyStep == Next \/ SignalInStopWindow

AnyStepSpec == Init /\ [][NextAnyStep]_vars

----------------------------------------------------------------------------
(* The other classes used on their own: the agent is constructed and idle *)

agentState == <<args, world, server_url, probes, env_read, handlers, duration,
                max_frames, env, capture_method, waitVars, agentVars, running,
                start_time, pc, localVars, now, hstack, ioVars, obs>>
AgentIdle == InitRun(Run(Args(None, None, "png"), Env(0, 0, 0, 0)))

\* ConfigManager(): self.config = self._load()
ConfigNew(i) ==
    /\ cm.ops < MaxConfigOps /\ ~cm.inst[i].made
    /\ cm' = [cm EXCEPT !.inst[i] = [made |-> TRUE, top |-> Load(cm.secs, cm.file).top],
                        !.secs = Load(cm.secs, cm.file).secs,
                        !.ops = @ + 1, !.last = [op |-> "new", inst |-> i]]
    /\ UNCHANGED <<agentState, metrics, sessions, stream>>

\* set(key, value), with the save() that ends it
ConfigSet(i, path, v) ==
    /\ cm.ops < MaxConfigOps /\ cm.inst[i].made
    /\ LET res == SetKey(cm.inst[i].top, cm.secs, path, v)
       IN  cm' = [cm EXCEPT !.inst[i].top = res.top, !.secs = res.secs,
                            !.file = [exists |-> TRUE, tree |-> Snapshot(res.top, res.secs)],
                            !.ops = @ + 1, !.last = [op |-> "set", inst |-> i]]
    /\ UNCHANGED <<agentState, metrics, sessions, stream>>

\* reset(): self.config = DEFAULT_CONFIG.copy(); self.save()
ConfigReset(i) ==
    /\ cm.ops < MaxConfigOps /\ cm.inst[i].made
    /\ cm' = [cm EXCEPT !.inst[i].top = ShallowCopy(DefaultTop),
                        !.file = [exists |-> TRUE,
                                  tree |-> Snapshot(ShallowCopy(DefaultTop), cm.secs)],
                        !.ops = @ + 1, !.last = [op |-> "reset", inst |-> i]]
    /\ UNCHANGED <<agentState, metrics, sessions, stream>>

ConfigInit == AgentIdle /\ MetricsUnused /\ SessionsUnused /\ StreamUnused /\ \E f \in UserFiles : cm = ConfigStart(f)

ConfigNext ==
    \/ \E i \in Managers : ConfigNew(i)
    \/ \E i \in Managers, path \in SetPaths, v \in SetValues : ConfigSet(i, path, v)
    \/ \E i \in Managers : ConfigReset(i)

ConfigSpec == ConfigInit /\ [][ConfigNext]_vars

\* record_capture(success, size_bytes)
RecordCapture(success, size) ==
    /\ metrics.t < MaxMetricOps
    /\ metrics' = [m |-> Recorded(metrics.m, success, size), t |-> metrics.t + 1,
                   last |-> [op |-> "record", success |-> success, size |-> size]]
    /\ UNCHANGED <<agentState, cm, sessions, stream>>

\* reset()
MetricsReset ==
    /\ metrics.t < MaxMetricOps
    /\ metrics' = [m |-> FreshMetrics(metrics.t + 1), t |-> metrics.t + 1,
                   last |-> [NoCall EXCEPT !.op = "reset"]]
    /\ UNCHANGED <<agentState, cm, sessions, stream>>

\* create_session(): the next id of uuid4(); d seconds have passed since the
\* call before
CreateSession(d) ==
    /\ sessions.ops < MaxSessionOps
    /\ Cardinality(DOMAIN sessions.tab) < Len(SessionIds)
    /\ LET id == SessionIds[Cardinality(DOMAIN sessions.tab) + 1]
       IN  sessions' = [sessions EXCEPT
                           !.tab = [i \in DOMAIN @ \cup {id} |->
                                       IF i = id THEN NewSession(sessions.t + d) ELSE @[i]],
                           !.t = @ + d, !.ops = @ + 1,
                           !.last = [op |-> "create", id |-> id]]
    /\ UNCHANGED <<agentState, cm, metrics, stream>>

\* stop_session(id), d seconds after the call before
StopSessionCall(id, d) ==
    /\ sessions.ops < MaxSessionOps
    /\ sessions' = [sessions EXCEPT
                       !.tab = StopSession(@, id, sessions.t + d),
                       !.t = @ + d, !.ops = @ + 1,
                       !.last = [op |-> "stop", id |-> id],
                       !.stopped = IF id \in DOMAIN sessions.tab THEN @ \cup {id} ELSE @]
    /\ UNCHANGED <<agentState, cm, metrics, stream>>

SessionsInit == AgentIdle /\ ConfigUnused /\ MetricsUnused /\ SessionsUnused /\ StreamUnused

SessionsNext ==
    \/ \E d \in 0..1 : CreateSession(d)
    \/ \E id \in {SessionIds[1], SessionIds[2], UnknownId}, d \in 0..1 : StopSessionCall(id, d)

SessionsSpec == SessionsInit /\ [][SessionsNext]_vars

\* stream_frames(callback) is called: the coroutine exists and is scheduled
StreamCall ==
    /\ stream.pc = "none"
    /\ stream' = [stream EXCEPT !.pc = "new"]
    /\ UNCHANGED <<agentState, cm, metrics, sessions>>

\* lines 18-21: the coroutine begins to run, self.running = True, and it awaits
\* the connection
StreamBegin ==
    /\ stream.pc = "new"
    /\ stream' = [stream EXCEPT !.ws = WsScheme(stream.scheme), !.running = TRUE,
                                !.pc = "connecting"]
    /\ UNCHANGED <<agentState, cm, metrics, sessions>>

\* the connection is made
StreamConnected ==
    /\ stream.pc = "connecting"
    /\ stream' = [stream EXCEPT !.pc = "test"]
    /\ UNCHANGED <<agentState, cm, metrics, sessions>>

\* while self.running: the coroutine awaits a frame, or leaves the loop and
\* returns
StreamTest ==
    /\ stream.pc = "test"
    /\ stream' = [stream EXCEPT !.pc = IF stream.running THEN "recv" ELSE "returned"]
    /\ UNCHANGED <<agentState, cm, metrics, sessions>>

\* lines 23-26: a frame of the given kind arrives, the callback is invoked
StreamFrame(kind) ==
    /\ stream.pc = "recv"
    /\ stream.frames < MaxStreamFrames
    /\ stream' = [stream EXCEPT !.frames = @ + 1, !.callbacks = @ + 1,
                                !.received = kind, !.passed = CallbackArg(kind),
                                !.pc = "test"]
    /\ UNCHANGED <<agentState, cm, metrics, sessions>>

\* the connection is closed while a frame is awaited: recv() raises and
\* stream_frames ends with the exception
StreamClosed ==
    /\ stream.pc = "recv"
    /\ stream' = [stream EXCEPT !.pc = "raised"]
    /\ UNCHANGED <<agentState, cm, metrics, sessions>>

\* stop() (lines 29-31), called while the coroutine is not running a step
StreamStop ==
    /\ stream.pc \notin {"returned", "raised"}
    /\ stream.stops < MaxStreamStops
    /\ stream' = [stream EXCEPT !.running = FALSE, !.stops = @ + 1]
    /\ UNCHANGED <<agentState, cm, metrics, sessions>>

StreamInit ==
    /\ AgentIdle /\ ConfigUnused /\ MetricsUnused /\ SessionsUnused
    /\ \E scheme \in Schemes : stream = StreamMade(scheme)

StreamNext ==
    \/ StreamCall
    \/ StreamBegin
    \/ StreamConnected
    \/ StreamTest
    \/ \E kind \in FrameKinds : StreamFrame(kind)
    \/ StreamClosed
    \/ StreamStop

StreamSpec == StreamInit /\ [][StreamNext]_vars

MetricsInit == AgentIdle /\ ConfigUnused /\ MetricsUnused /\ SessionsUnused /\ StreamUnused

MetricsNext ==
    \/ \E success \in BOOLEAN, size \in SizeArgs : RecordCapture(success, size)
    \/ MetricsReset

MetricsSpec == MetricsInit /\ [][MetricsNext]_vars

----------------------------------------------------------------------------
(* Claims *)

\* the k-th element of 1, 2, 4, 8, 16, 30, 30, ...
BackoffSeq(k) == Min(2 ^ (k - 1), BackoffCap)

Started == start_time # None
SinceStart == now - start_time[1]

\* C1: the k-th of k consecutive failed upload_frame calls (counted from a fresh
\* agent or from the last successful upload) sleeps the k-th element of
\* 1, 2, 4, 8, 16, 30, 30, ...: the delay about to be slept while the call is in
\* its backoff sleep, and the delay that was slept once it has returned.
C1_BackoffSequence ==
    obs.failRun >= 1 =>
        IF pc = "backoff" THEN retry_delay = BackoffSeq(obs.failRun)
        ELSE obs.lastBackoff = BackoffSeq(obs.failRun)

\* C2: with max_frames = N >= 1, no duration and no signal, no capture or upload
\* is started once frame_id has reached N, and the loop is left after exactly N
\* successful uploads, however many failed uploads lie between them.
C2_ExactlyNUploads ==
    (Truthy(max_frames) /\ duration = None /\ obs.signals = 0) =>
        /\ pc \in {"capture", "upload"} => frame_id < max_frames[1]
        /\ obs.uploadsOk <= max_frames[1]
        /\ pc \in {"stop_test", "stop_body", "done"} => obs.uploadsOk = max_frames[1]

C2_Witness ==
    /\ pc = "done" /\ max_frames = Some(3) /\ duration = None /\ obs.signals = 0
    /\ obs.uploadsOk = 3 /\ obs.iters > 3

\* C3: when every signal of the run (two or more) is delivered while the loop is
\* in its inter-iteration sleep, the run prints the stopped summary exactly once
\* (handlers and the loop's final stop() together), and the loop starts no
\* further iteration: it leaves at the next evaluation of the loop condition.
C3_OneSummaryTwoSignalsInSleep ==
    (obs.signals >= 2 /\ obs.sigInSleep = obs.signals) =>
        /\ obs.summaries <= 1
        /\ pc \in {"sleeping", "check", "stop_test", "stop_body", "done"}
        /\ (pc = "done" /\ hstack = <<>>) => obs.summaries = 1

C3_Witness ==
    /\ pc = "done" /\ hstack = <<>>
    /\ obs.signals = 2 /\ obs.sigInSleep = 2 /\ obs.summaries = 1

\* C4: the stopped summary is printed at most once per run, for every
\* interleaving of handler invocations with the main thread, a handler starting
\* between stop()'s test and its assignment included.
C4_SummaryAtMostOnce == obs.summaries <= 1

\* C5: a handler never moves the main thread (the call in progress is not
\* preempted); once a signal has arrived while the agent was Running no further
\* iteration is started; and the loop then eventually reaches Stopped.
C5_CooperativeStop ==
    /\ [][hstack # <<>> => pc' = pc /\ now' = now]_vars
    /\ [][obs.sigRunning => obs'.iters = obs.iters]_vars
    /\ (obs.sigRunning ~> (pc = "done" /\ ~running))

C5_Witness ==
    /\ obs.sigRunning /\ pc = "done" /\ ~running /\ hstack = <<>>
    /\ obs.failRun > 0 /\ obs.summaries = 1

\* C6: after a signal delivered while start() waits for the server, the agent
\* never enters the capture loop: it is never Running, it captures nothing and
\* it uploads nothing.
C6_EarlyStopHonoured ==
    (obs.sigWait /\ hstack = <<>>) =>
        /\ ~running
        /\ pc \notin LoopPcs
        /\ obs.captures = 0

\* C7: after a 200 response whose config object carries quality q (format f),
\* the next encode uses quality q (format f, lower-cased); with interval i the
\* next sleep computation uses i; a field the config object does not carry is
\* left as it was.
C7_PatchTakesEffect ==
    /\ [](pc = "upload" /\ last.status = "ok" =>
            /\ last.cfg.quality # {} => enc.quality \in last.cfg.quality
            /\ last.cfg.format # {} => enc.format \in {Lower(f) : f \in last.cfg.format})
    /\ [](pc = "sleeping" /\ last.status = "ok" /\ last.cfg.interval # {} =>
            \E i \in last.cfg.interval : sleep_time = SleepTime(i, elapsed))
    /\ [][pc = "upload" /\ pc' # "upload" /\ last'.status = "ok" =>
            /\ last'.cfg.quality = {} => quality' = quality
            /\ last'.cfg.format = {} => format' = format
            /\ last'.cfg.interval = {} => interval' = interval]_vars

\* C8 as claimed: with duration = 5, interval = 1 and no patch, at most 6
\* captures are attempted and Stopped is reached no later than one interval
\* after the 5-second mark.
C8_StopsWithinOneInterval ==
    (duration = Some(5) /\ obs.patches = 0 /\ Started) =>
        /\ obs.captures <= 6
        /\ pc = "done" => SinceStart <= duration[1] + interval

\* C8 as amended: at most 6 captures are attempted, and Stopped is reached less
\* than max(interval, cost of the last iteration) after the 5-second mark, the
\* cost being that iteration's capture, upload, backoff sleep and cooldown.
C8_StopsAfterLastIteration ==
    (duration = Some(5) /\ obs.patches = 0 /\ Started) =>
        /\ obs.captures <= 6
        /\ pc = "done" => SinceStart < duration[1] + Max(interval, elapsed)

C8_Witness ==
    /\ duration = Some(5) /\ obs.patches = 0 /\ Started /\ pc = "done"
    /\ obs.signals = 0
    /\ obs.captures >= 2
    /\ SinceStart > duration[1] + interval

\* C9: an iteration (a capture) is started only when the stop flag is not set,
\* the elapsed time is below every configured (non-None) duration, zero
\* included, and frame_id is below every configured max_frames, zero included.
C9_NoCaptureWhenLimitHolds ==
    [][pc = "check" /\ pc' = "capture" =>
        /\ running
        /\ duration # None => SinceStart < duration[1]
        /\ max_frames # None => frame_id < max_frames[1]]_vars

\* C10: every upload_frame call that received HTTP 200 returns success without a
\* backoff sleep, leaves retry_delay at 1, and frame_id is incremented.
C10_Every200Succeeds ==
    (last.status = "ok" /\ pc \in {"backoff", "sleep"}) =>
        /\ last.returned
        /\ pc = "sleep"
        /\ retry_delay = InitialRetryDelay
        /\ frame_id = request.frame_id + 1

\* C11: an upload_frame call that returns failure (it goes to its backoff sleep)
\* leaves frame_id, interval, format, quality and the running flag as they were,
\* and the upload that follows a failed one is sent under the same frame_id.
C11_FailureChangesOnlyDelay ==
    /\ [][pc = "upload" /\ pc' = "backoff" =>
            /\ frame_id' = frame_id
            /\ interval' = interval
            /\ format' = format
            /\ quality' = quality
            /\ running' = running]_vars
    /\ [][pc = "upload" /\ pc' # "upload" /\ request # NoRequest /\ ~last.returned =>
            request'.frame_id = request.frame_id]_vars

\* C12: frame_id starts at 0 and is at all times the number of uploads that
\* returned success; it changes only by +1, in the step in which an upload
\* returns success; and the frame_id sent with an upload request is the number
\* of uploads that had returned success before it.
C12_FrameIdCountsSuccesses ==
    /\ [](frame_id = obs.uploadsOk)
    /\ [][frame_id' = frame_id
            \/ (frame_id' = frame_id + 1 /\ pc = "upload" /\ last'.returned)]_vars
    /\ [](request # NoRequest =>
            request.frame_id = obs.uploadsOk - (IF last.returned THEN 1 ELSE 0))

C12_Witness ==
    /\ pc = "backoff" /\ request.frame_id = 2 /\ obs.uploadsOk = 2
    /\ obs.iters >= 5 /\ obs.failRun >= 2

\* an agent exists: __init__ returned
IsConstructed == pc # "ctor_error"

\* C13: in every state of a constructed agent, whatever quality it was
\* constructed with and whatever patches it has received, quality is an
\* integer in 1..100.
C13_QualityInRange ==
    IsConstructed => quality \in QualityMin..QualityMax

\* C14: in every state of a constructed agent the stored format is one of png,
\* jpeg, webp, bmp, tiff, and the format field, the mime type and the filename
\* of every upload request are built from such a value.
C14_FormatNormalized ==
    IsConstructed =>
        /\ format \in StoredFormats
        /\ request # NoRequest =>
              /\ request.format \in StoredFormats
              /\ request.mime = <<"image/", request.format>>
              /\ request.filename = <<"frame.", request.format>>

\* C15: a constructed agent was given an interval > 0, and in every one of its
\* states the interval is > 0.
C15_IntervalPositive ==
    IsConstructed => args.interval > 0 /\ interval > 0

C17_InvalidFormatFailsFirst ==
    IF Lower(args.format) \in AcceptedFormats
    THEN IsConstructed
    ELSE /\ pc = "ctor_error"
         /\ probes = <<>> /\ ~env_read /\ server_url = None
         /\ capture_method = ""
         /\ ~handlers
         /\ obs.captures = 0 /\ request = NoRequest

C17_Witness ==
    /\ pc = "ctor_error" /\ args.format = "GIF"
    /\ args.server_url = None /\ world.env_url = None /\ world.responders # {}
    /\ probes = <<>> /\ ~handlers

\* v is u without its trailing slashes
StripsTo(u, v) ==
    /\ Len(v) <= Len(u) /\ v = SubSeq(u, 1, Len(v))
    /\ v # <<>> => v[Len(v)] # "/"
    /\ \A i \in (Len(v) + 1)..Len(u) : u[i] = "/"

\* with a non-empty explicit URL the result is that URL without its trailing
\* slashes, MEDIATOR_URL is not read and nothing is probed
ExplicitUrlWins ==
    StrTruthy(args.server_url) =>
        /\ server_url # None /\ StripsTo(args.server_url[1], server_url[1])
        /\ ~env_read /\ probes = <<>>

\* C18 as claimed: explicit URL before environment before probing; with no
\* explicit URL and MEDIATOR_URL set (to whatever value), nothing is probed and
\* the result is the variable's value without its trailing slashes.
C18_EnvSetMeansNoProbe ==
    IsConstructed =>
        /\ ExplicitUrlWins
        /\ (~StrTruthy(args.server_url) /\ world.env_url # None) =>
              /\ probes = <<>>
              /\ server_url # None /\ StripsTo(world.env_url[1], server_url[1])

\* C18 as amended: the same for MEDIATOR_URL set to a non-empty value; set to
\* the empty string it is treated as unset and the candidates are probed.
C18_Precedence ==
    IsConstructed =>
        /\ ExplicitUrlWins
        /\ (~StrTruthy(args.server_url) /\ StrTruthy(world.env_url)) =>
              /\ probes = <<>>
              /\ server_url # None /\ StripsTo(world.env_url[1], server_url[1])
        /\ (~StrTruthy(args.server_url) /\ ~StrTruthy(world.env_url)) =>
              probes # <<>>

C18_Witness ==
    /\ IsConstructed /\ pc = "check"
    /\ args.server_url = Some(<<>>)
    /\ world.env_url = Some(EnvUrl \o <<"/", "/">>) /\ world.responders # {}
    /\ server_url = Some(EnvUrl) /\ probes = <<>>

\* the constructor probed: no usable explicit URL, no usable MEDIATOR_URL
Probed == IsConstructed /\ ~StrTruthy(args.server_url) /\ ~StrTruthy(world.env_url)

\* the order the claim fixes: localhost, mediator, host.docker.internal, then
\* the gateway if there is a default route to take it from
ClaimedOrder ==
    <<LocalhostUrl, MediatorUrl, DockerHostUrl>>
    \o (IF world.os_type = "Linux" /\ world.route = "default"
        THEN <<GatewayUrl(world.gateway_ip)>> ELSE <<>>)

\* the candidates are probed in the claimed order up to the first one that
\* answers, which is the result; when none answers all were probed and the
\* result is the default; and reading the route table never fails __init__
ProbedInOrder ==
    /\ Lower(args.format) \in AcceptedFormats => IsConstructed
    /\ Probed =>
        /\ probes # <<>> /\ Len(probes) <= Len(ClaimedOrder)
        /\ probes = SubSeq(ClaimedOrder, 1, Len(probes))
        /\ \A i \in 1..(Len(probes) - 1) : probes[i] \notin world.responders
        /\ IF probes[Len(probes)] \in world.responders
           THEN server_url = Some(probes[Len(probes)])
           ELSE probes = ClaimedOrder /\ server_url = Some(DefaultUrl)

\* the gateway lookup raised
GatewayLookupFails ==
    world.os_type = "Linux" /\ world.route \in {"unreadable", "malformed"}

\* C19 as claimed: candidates are probed in the order localhost, mediator,
\* host.docker.internal, gateway; the first that answers is the result and no
\* later one is probed; when every probe fails, or when the gateway lookup
\* fails, the result is the default http://localhost:8080; no error escapes.
C19_DefaultOnGatewayFailure ==
    /\ ProbedInOrder
    /\ (Probed /\ GatewayLookupFails) => server_url = Some(DefaultUrl)

\* C19 as amended: the same, except that a failed gateway lookup only leaves
\* the gateway candidate out: the three fixed candidates are probed as usual
\* and the default is the result when none of them answers.
C19_ProbeOrder ==
    /\ ProbedInOrder
    /\ (Probed /\ GatewayLookupFails) =>
          /\ Len(probes) <= 3
          /\ server_url \in {Some(LocalhostUrl), Some(MediatorUrl), Some(DockerHostUrl)}
          /\ (world.responders \cap {LocalhostUrl, MediatorUrl, DockerHostUrl} = {})
                => Len(probes) = 3 /\ server_url = Some(DefaultUrl)

C19_Witness ==
    /\ Probed /\ pc = "check"
    /\ world.os_type = "Linux" /\ world.route = "default"
    /\ world.responders = {GatewayUrl(world.gateway_ip)}
    /\ Len(probes) = 4 /\ probes[4] = GatewayUrl(world.gateway_ip)
    /\ server_url = Some(GatewayUrl(world.gateway_ip))

\* a pass of wait_for_server's loop is made
WaitPass == pc = "wait" /\ attempt' = attempt + 1

\* C20: a directly called wait_for_server(timeout) returns True in the pass
\* whose probe answers 200 and only then; a non-200 answer or a transport error
\* leaves it polling; the pass that begins after more than timeout seconds
\* returns False; and with a timeout given (0 included) the number of passes
\* is bounded: ten passes take at least the two seconds of the sleep.
C20_WaitReturns ==
    /\ [][env.entry = "wait" /\ WaitPass =>
            IF obs'.probe = "ok" THEN pc' = "wait_true" ELSE pc' = "wait"]_vars
    /\ [][pc = "wait" /\ pc' = "wait_true" => WaitPass /\ obs'.probe = "ok"]_vars
    /\ [][(pc = "wait" /\ timeout # None /\ now - wait_start > timeout[1]) =>
            pc' = "wait_false"]_vars
    /\ [](timeout # None =>
            attempt <= HeartbeatEvery * ((timeout[1] \div WaitSleepSeconds) + 1))

\* C21: every pass of wait_for_server's loop that does not return sleeps the
\* inter-attempt delay before the next probe, and the heartbeat line is printed
\* in exactly the passes whose attempt number is a multiple of 10.
C21_SleepsBetweenProbes ==
    /\ [][WaitPass /\ pc' = "wait" =>
            /\ obs'.waitSleeps = obs.waitSleeps + 1
            /\ now' >= now + WaitSleepSeconds]_vars
    /\ [][WaitPass /\ pc' = "wait" =>
            (obs'.heartbeats = obs.heartbeats + 1) = (attempt' % HeartbeatEvery = 0)]_vars
    /\ [][obs'.heartbeats # obs.heartbeats => WaitPass]_vars

\* the lifecycle: Idle, WaitingForServer, Running, Stopping, Stopped
Phase ==
    CASE pc = "idle" -> 0
      [] pc = "wait" -> 1
      [] pc \in LoopPcs -> 2
      [] pc \in {"stop_test", "stop_body"} -> 3
      [] OTHER -> 4

\* C22: a run() whose server never answers 200 terminates with a failure: its
\* wait has a deadline after which wait_for_server returns False; and as long
\* as no probe was answered 200 the agent is not running, has no start_time,
\* and has captured, uploaded and summarised nothing.
C22_RunFailsWithoutServer ==
    (env.entry = "run" /\ obs.calls = 1 /\ pc \in {"wait", "exit"}) =>
        /\ pc = "wait" => Truthy(timeout)
        /\ ~running /\ start_time = None
        /\ obs.captures = 0 /\ request = NoRequest /\ obs.summaries = 0

\* C23: the lifecycle only moves forward, and once the stopped summary has
\* been printed the agent is never running again, begins no further iteration
\* and is not started again.
C23_StoppedIsTerminal ==
    /\ [][env.entry = "run" => Phase' >= Phase]_vars
    /\ [](obs.summaries >= 1 => ~running)
    /\ [][obs.summaries >= 1 => obs'.iters = obs.iters /\ start_time' = start_time]_vars

\* the steps of the last capture_screen call made by real backends
RealSteps == {i \in 1..Len(shot.steps) : shot.steps[i].backend # "test_pattern"}

\* the failures of a backend: an error or timeout, an empty or a missing file
BackendFailures == {"raises", "empty", "nofile"}

\* C24: whatever the stored method, the platform and the failures of the library
\* and of the external tools, capture_screen returns an image: it raises only
\* when the encoder fails on the test pattern itself; a returned image comes from
\* a backend that was tried; and when every real backend that was tried failed,
\* the image returned is the test pattern.
C24_CaptureIsTotal ==
    shot # NoShot =>
        /\ shot.raised =>
              shot.steps[Len(shot.steps)] = [backend |-> "test_pattern", outcome |-> "unencodable"]
        /\ shot.source = shot.steps[Len(shot.steps)].backend
        /\ (\A i \in RealSteps : shot.steps[i].outcome \in BackendFailures) =>
              shot.source = "test_pattern"
        /\ shot.source = "test_pattern" => \A i \in RealSteps : shot.steps[i].outcome # "image"

\* the library and both tools of the chain have failed, the test pattern is returned
C24_Witness ==
    /\ pc = "captured" /\ capture_method = "mss"
    /\ Len(shot.steps) = 4
    /\ \A i \in RealSteps : shot.steps[i].outcome \in BackendFailures
    /\ shot.source = "test_pattern" /\ ~shot.raised

\* C25: a failure of the encoder stays inside capture_screen: the call never
\* raises, a call in which the encoder failed on the image of the last real
\* backend returns the test pattern, and the run loop never handles an exception
\* of the capture step.
C25_EncodingFailureContained ==
    /\ ~shot.raised
    /\ (\E i \in RealSteps : /\ shot.steps[i].outcome = "unencodable"
                              /\ \A j \in RealSteps : j <= i) =>
          shot.source = "test_pattern"
    /\ pc \notin {"cooldown", "capture_raised"}

\* the four strategies under the names the code stores
SystemToolChain == "linux_system"
LibraryBackend == "mss"
NativeTool == "macos_screencapture"
SyntheticFallback == "test_pattern"

\* the priority order as claimed: Wayland on Linux, the library, the native
\* utility on Darwin, else the test pattern
ClaimedSelection(w) ==
    IF w.os_type = "Linux" /\ w.wayland THEN SystemToolChain
    ELSE IF w.mss_ok THEN LibraryBackend
    ELSE IF w.os_type = "Darwin" THEN NativeTool
    ELSE SyntheticFallback

\* C26 as claimed: the constructor stores the strategy of the claimed priority
\* order for every platform, session type and library state.
C26_SelectionAsClaimed ==
    pc = "idle" => capture_method = ClaimedSelection(world)

\* the selection, platform by platform
SelectionTable(w) ==
    CASE w.os_type = "Linux" ->
            IF w.wayland \/ ~w.mss_ok THEN SystemToolChain ELSE LibraryBackend
      [] w.os_type = "Darwin" -> IF w.mss_ok THEN LibraryBackend ELSE NativeTool
      [] OTHER -> IF w.mss_ok THEN LibraryBackend ELSE SyntheticFallback

\* C26: the constructor stores the tool chain on Linux under Wayland or without
\* a usable library, the library wherever else it is usable, the native utility
\* on Darwin without it, and the test pattern on any other platform without it.
C26_Selection ==
    pc = "idle" => capture_method = SelectionTable(world)

\* Linux without Wayland and without the library: the tool chain is stored
C26_Witness ==
    /\ pc = "idle" /\ world.os_type = "Linux" /\ ~world.wayland /\ ~world.mss_ok
    /\ capture_method = SystemToolChain

\* C27: the stored capture method is the one the constructor selected, and no
\* step changes it: not a capture that falls back to other backends or raises,
\* not an upload with or without a configuration patch, not stop(), not a signal
\* handler, not a second run().
C27_MethodNeverChanges ==
    /\ [][capture_method' = capture_method]_vars
    /\ [](capture_method = Construct(args, world).capture_method)

\* a run stopped by a signal after a capture that fell back from the library to
\* gnome-screenshot was uploaded: the library is still the stored method
C27_Witness ==
    /\ pc = "done" /\ obs.signals >= 1 /\ obs.summaries >= 1 /\ frame_id >= 1
    /\ shot.source = "gnome-screenshot"
    /\ capture_method = LibraryBackend

\* C28: a step of the signal path (the handler and the stop() it calls) prints
\* nothing and takes no time; it changes nothing but the running flag, which it
\* can only clear: frame_id, retry_delay, interval, format, quality and
\* capture_method, the position of the interrupted code and its requests are as
\* before.
C28_SignalPathOnlyClearsFlag ==
    [][hstack # <<>> =>
          /\ obs'.summaries = obs.summaries
          /\ now' = now
          /\ running' = running \/ ~running'
          /\ UNCHANGED <<frame_id, retry_delay, interval, format, quality, capture_method>>
          /\ UNCHANGED <<pc, request, last, shot>>]_vars

\* C29: an exception of the capture/upload step takes the loop to its except
\* clause with frame_id and retry_delay as they were; the clause sleeps the two
\* seconds of the cooldown and changes neither; from there the iteration goes on
\* to its interval sleep and to the next test of the loop condition, and never
\* leaves the loop on its way.
C29_LoopSurvivesException ==
    /\ [][pc # "cooldown" /\ pc' = "cooldown" =>
            pc = "capture" /\ UNCHANGED <<frame_id, retry_delay>>]_vars
    /\ [][pc = "cooldown" /\ pc' # "cooldown" =>
            /\ pc' = "sleep"
            /\ now' = now + CooldownSeconds
            /\ UNCHANGED <<frame_id, retry_delay>>]_vars
    /\ [][pc = "sleep" => pc' \in {"sleep", "sleeping", "check"}]_vars
    /\ [][pc = "sleeping" => pc' \in {"sleeping", "check"}]_vars

\* the second iteration's capture has returned after the first iteration's
\* capture raised (no upload has succeeded or failed so far)
C29_Witness ==
    /\ pc = "upload" /\ obs.iters = 2 /\ obs.captures = 2
    /\ frame_id = 0 /\ obs.failRun = 0 /\ retry_delay = InitialRetryDelay
    /\ now >= CooldownSeconds

\* the steps of the last capture_screen call made by the tools of the chain, and
\* the number of steps made before the chain was entered
ToolSteps ==
    {i \in 1..Len(shot.steps) : shot.steps[i].backend \in {"flameshot", "gnome-screenshot"}}
BeforeChain == IF shot.steps # <<>> /\ shot.steps[1].backend = "mss" THEN 1 ELSE 0

\* flameshot is invoked first, gnome-screenshot second, each at most once
ChainInOrder ==
    /\ ToolSteps \subseteq {BeforeChain + 1, BeforeChain + 2}
    /\ \A i \in ToolSteps :
          shot.steps[i].backend = IF i = BeforeChain + 1 THEN "flameshot" ELSE "gnome-screenshot"
    /\ BeforeChain + 2 \in ToolSteps => BeforeChain + 1 \in ToolSteps

\* the invocation has left a non-empty output file that holds a usable image
LeavesOutput(k) == k \in {"image", "raises_image"}

\* C30 as claimed: the tools run in order; the first invocation that leaves a
\* non-empty file (here: one with a usable image) supplies the image and is the
\* last one; a tool that errors,
\* times out or leaves no or an empty file is followed by the next backend; and
\* when the chain is exhausted the test pattern is returned.
C30_ChainAsClaimed ==
    /\ ChainInOrder
    /\ \A i \in ToolSteps :
          /\ LeavesOutput(shot.steps[i].outcome) =>
                shot.source = shot.steps[i].backend /\ i = Len(shot.steps)
          /\ shot.steps[i].outcome \in BackendFailures => i < Len(shot.steps)
    /\ (ToolSteps # {} /\ \A i \in ToolSteps : ~LeavesOutput(shot.steps[i].outcome)) =>
          shot.source = "test_pattern"

\* the file that a tool which returned finds is an image left by an earlier
\* tool whose invocation raised after writing it
FindsLeftover(i) ==
    /\ shot.steps[i].outcome = "nofile"
    /\ \E j \in ToolSteps : j < i /\ shot.steps[j].outcome = "raises_image"

\* C30: the tools run in order.  The file is examined only after an invocation
\* that returned: the first one that returns with a loadable, encodable image in
\* the file (its own, or one left by an earlier tool that timed out after
\* writing it) supplies the image and is the last tool invoked.  An invocation
\* that raises, even after writing the file, and one that leaves no file, an
\* empty file or a file that cannot be loaded or encoded, is followed by the
\* next tool, and after the last tool by the test pattern.
C30_Chain ==
    /\ ChainInOrder
    /\ \A i \in ToolSteps :
          IF shot.steps[i].outcome = "image" \/ FindsLeftover(i)
          THEN shot.source = shot.steps[i].backend /\ i = Len(shot.steps) /\ ~shot.raised
          ELSE /\ i < Len(shot.steps)
               /\ shot.steps[i + 1].backend =
                     IF shot.steps[i].backend = "flameshot" THEN "gnome-screenshot"
                     ELSE "test_pattern"
    /\ shot.source \in {"flameshot", "gnome-screenshot"} =>
          shot.steps[Len(shot.steps)].backend = shot.source

\* flameshot timed out after writing its file; gnome-screenshot was invoked all
\* the same and its image is returned
C30_Witness ==
    /\ pc = "captured" /\ capture_method = SystemToolChain
    /\ Len(shot.steps) = 2
    /\ shot.steps[1] = [backend |-> "flameshot", outcome |-> "raises_image"]
    /\ shot.steps[2] = [backend |-> "gnome-screenshot", outcome |-> "image"]
    /\ shot.source = "gnome-screenshot"

\* C31: every failed upload prints the warning with the delay it is about to
\* sleep, whatever that delay is.
C31_EveryFailureWarns ==
    [][pc = "backoff" /\ pc' # "backoff" =>
          obs'.lastBackoff = retry_delay /\ obs'.warned]_vars

\* C32: at the end of an iteration the cost measured is the time since the
\* iteration began (its capture, upload, backoff sleep and cooldown), and the
\* loop sleeps max(0, interval - cost): the sleep is never negative, it lasts
\* exactly that long, an iteration that cost at least the interval goes to the
\* next test of the loop condition without sleeping, and an iteration begins at
\* least one interval after the one before it began.
C32_SleepsTheRemainder ==
    /\ [](sleep_time >= 0)
    /\ [][pc = "sleep" /\ pc' # "sleep" =>
            /\ elapsed' = now - loop_start
            /\ sleep_time' = Max(0, interval - elapsed')
            /\ pc' = IF elapsed' >= interval THEN "check" ELSE "sleeping"
            /\ now' = now]_vars
    /\ [][pc = "sleeping" /\ pc' # "sleeping" =>
            pc' = "check" /\ now' = now + sleep_time]_vars
    /\ [][pc = "check" /\ pc' = "capture" /\ obs.iters >= 1 =>
            loop_start' - loop_start >= interval]_vars

\* an iteration that cost more than the interval was followed by no sleep
C32_Witness ==
    /\ pc = "check" /\ obs.iters >= 1
    /\ interval > 0 /\ elapsed > interval
    /\ sleep_time = 0 /\ now = loop_start + elapsed

\* C33: when run() has returned, the frame count printed in the stopped summary
\* is the value of the frame counter, that is the number of uploads that
\* succeeded, wherever the stop signal arrived.
C33_SummaryCountIsFinal ==
    (pc = "done" /\ obs.summaries >= 1) =>
        obs.reported = frame_id /\ obs.reported = obs.uploadsOk

\* C34: when a capture that used an external tool has returned or raised, on
\* whatever path, the temporary file of the call does not exist.
C34_TempFileRemoved ==
    (\E i \in 1..Len(shot.steps) :
        shot.steps[i].backend \in {"flameshot", "gnome-screenshot", "screencapture"}) =>
        shot.file = "none"

\* C35: DEFAULT_CONFIG keeps the values it was defined with, whatever set()
\* calls and merges of a user file were made by any ConfigManager of the
\* process, and the configuration that a reset() leaves is equal to them.
C35_ResetRestoresDefaults ==
    /\ Snapshot(DefaultTop, cm.secs) = DefaultTree
    /\ cm.last.op = "reset" =>
          Snapshot(cm.inst[cm.last.inst].top, cm.secs) = DefaultTree

\* C36: after any calls of record_capture and reset the total is the sum of the
\* successes and the failures and none of the three is negative; bytes_uploaded
\* grows by size_bytes in a record_capture with success = True, becomes 0 in a
\* reset, and is left alone by a record_capture with success = False.
C36_CountersAddUp ==
    /\ [](/\ metrics.m.captures_total = metrics.m.captures_success + metrics.m.captures_failed
          /\ metrics.m.captures_total >= 0
          /\ metrics.m.captures_success >= 0
          /\ metrics.m.captures_failed >= 0)
    /\ [][metrics'.m.bytes_uploaded =
            CASE metrics'.last.op = "reset" -> 0
              [] metrics'.last.success -> metrics.m.bytes_uploaded + metrics'.last.size
              [] OTHER -> metrics.m.bytes_uploaded]_vars

\* a failed capture with a size was recorded after a successful one, and the
\* bytes are those of the successful one
C36_Witness ==
    /\ metrics.last = [op |-> "record", success |-> FALSE, size |-> 2]
    /\ metrics.m.captures_success = 1 /\ metrics.m.captures_failed = 1
    /\ metrics.m.bytes_uploaded = 1

\* C37: a session that is stopped stays as it is, status and end_time, whatever
\* is called afterwards; stop_session of an id that names no session changes
\* nothing; and the active sessions are exactly the sessions created on which
\* stop_session has not been called.
C37_StopIsIdempotent ==
    /\ [][\A id \in DOMAIN sessions.tab :
            sessions.tab[id].status = "stopped" => sessions'.tab[id] = sessions.tab[id]]_vars
    /\ [][(sessions'.last.op = "stop" /\ sessions'.last.id \notin DOMAIN sessions.tab) =>
            sessions'.tab = sessions.tab]_vars
    /\ [](ActiveSessions(sessions.tab) = DOMAIN sessions.tab \ sessions.stopped)

\* C38: once stop() has been called, before stream_frames has set running or
\* while it awaits a frame, the callback is not invoked for a frame that
\* arrives afterwards, and the next test of the loop condition ends
\* stream_frames.
C38_StopStopsStreaming ==
    /\ [][stream.stops >= 1 => stream'.callbacks = stream.callbacks]_vars
    /\ [][(stream.stops >= 1 /\ stream.pc = "test" /\ stream'.pc # "test") =>
            stream'.pc = "returned"]_vars

====
